---- MODULE Spec2Model ----
(* The replication store that SQL.Collection registers with its connection    *)
(* (packages/sql/collection.js, registerStore): beginUpdate, update,          *)
(* endUpdate, saveOriginals, retrieveOriginals, driving self._collection.     *)
(* self._collection (the local collection: documents, observers, originals)   *)
(* is not part of packages/sql; it is modelled from the specification.        *)
EXTENDS Integers, Sequences, FiniteSets, TLC

(* ------------------------------------------------------------------------ *)
(* Bounds and data domains                                                  *)
(* ------------------------------------------------------------------------ *)

\* Batches open at once (beginUpdate without its endUpdate yet).
MaxNest == 2
\* Originals frames open at once (saveOriginals without its retrieveOriginals).
MaxFrames == 2
\* Batches and frames open at once, together.
MaxOpen == 2
\* Largest batchSize the transport announces.
MaxBatchSize == 2

Ids == {1, 2}
\* Field names and values of the documents of the full protocol model.
Fields == {"name"}
Values == {"a"}
\* Field names and values where only update(msg) is exercised.
WideFields == {"name", "age"}
WideValues == {"a", "null"}
\* The value `undefined`: in a 'changed' message it means "unset this field".
Undefined == "undefined"

\* A document's fields: the fields it has, each with a value. Its _id is the
\* key it is stored under.
FieldMaps(F, V) == UNION {[S -> V] : S \in SUBSET F}
\* The field mapping of a 'changed' message: a field may map to undefined.
ChangeMaps(F, V) == UNION {[S -> V \cup {Undefined}] : S \in SUBSET F}

\* A message names its document by the string form of the id.
idStringify(id) == ToString(id)
WireIds == {idStringify(i) : i \in Ids}
idParse(s) == CHOOSE i \in Ids : idStringify(i) = s

\* A replacement document carries its own _id; null stands for "remove it".
Replacements(F, V) == [_id : Ids, fields : FieldMaps(F, V)]
Null == [null |-> TRUE]

\* The messages over fields F and values V; 'ping' is a tag update does not know.
MessagesOver(F, V) ==
  [msg : {"added"}, id : WireIds, fields : FieldMaps(F, V)]
    \cup [msg : {"changed"}, id : WireIds, fields : ChangeMaps(F, V)]
    \cup [msg : {"removed"}, id : WireIds]
    \cup [msg : {"replace"}, id : WireIds, replace : Replacements(F, V) \cup {Null}]
    \cup [msg : {"ping"}, id : WireIds]
Messages == MessagesOver(Fields, Values)
WideMessages == MessagesOver(WideFields, WideValues)

(* ------------------------------------------------------------------------ *)
(* State                                                                    *)
(* ------------------------------------------------------------------------ *)

VARIABLES
  docs,       \* self._collection's documents: present id -> fields
  originals,  \* the originals ledger: a stack of frames, id -> saved original
  paused,     \* pause nesting depth of the observers
  seen,       \* the documents as the observers were last told of them
  fired,      \* notifications each observer received during the last call
  err,        \* what the last call threw ("none": it returned)
  ret,        \* what the last call returned: <<frame>> for retrieveOriginals
  call,       \* the last call: its name and its argument
  open,       \* the transport's open batches, innermost last
  opened      \* per open frame, the documents when saveOriginals opened it

vars == <<docs, originals, paused, seen, fired, err, ret, call, open, opened>>

Observers == {0} \cup Ids
\* Observer 0 watches every document, observer i the document with id i.
Watch(o) == IF o = 0 THEN Ids ELSE {o}
Result(o, d) == [i \in (DOMAIN d) \cap Watch(o) |-> d[i]]
NoneFired == [o \in Observers |-> 0]

NoDocs == [i \in {} |-> [f \in {} |-> "a"]]
NoArg == [none |-> TRUE]
EmptyFrame == [i \in {} |-> [exists |-> FALSE]]
DidNotExist == [exists |-> FALSE]
Saved(d) == [exists |-> TRUE, doc |-> d]

(* ------------------------------------------------------------------------ *)
(* self._collection                                                         *)
(* A collection value c is [docs, originals, paused, seen, fired].          *)
(* ------------------------------------------------------------------------ *)

Coll ==
  [docs |-> docs, originals |-> originals, paused |-> paused, seen |-> seen,
   fired |-> NoneFired]

findOne(c, id) == id \in DOMAIN c.docs

\* capture(id): every open frame that has no entry for id yet saves the
\* document as it is now, or that it did not exist (a frame holds every id
\* touched since its saveOriginals, once per frame).
capture(c, id) ==
  [c EXCEPT !.originals =
     [k \in DOMAIN c.originals |->
        IF id \in DOMAIN c.originals[k] THEN c.originals[k]
        ELSE [i \in (DOMAIN c.originals[k]) \cup {id} |->
                IF i = id
                  THEN (IF id \in DOMAIN c.docs THEN Saved(c.docs[id])
                        ELSE DidNotExist)
                  ELSE c.originals[k][i]]]]

\* The documents become d: observers are told at once unless paused.
notify(c, d) ==
  IF c.paused = 0
    THEN [c EXCEPT !.docs = d, !.seen = d,
            !.fired = [o \in Observers |->
               c.fired[o] + (IF Result(o, d) # Result(o, c.seen) THEN 1 ELSE 0)]]
    ELSE [c EXCEPT !.docs = d]

insertFails(c, id) == id \in DOMAIN c.docs
insert(c, id, d) ==
  LET c1 == capture(c, id)
  IN notify(c1, [i \in (DOMAIN c.docs) \cup {id} |->
                   IF i = id THEN d ELSE c.docs[i]])

removeFails(c, id) == id \notin DOMAIN c.docs
remove(c, id) ==
  LET c1 == capture(c, id)
  IN notify(c1, [i \in (DOMAIN c.docs) \ {id} |-> c.docs[i]])

RECURSIVE removeEach(_, _)
removeEach(c, S) ==
  IF S = {} THEN c
  ELSE LET id == CHOOSE i \in S : \A j \in S : i <= j
       IN removeEach(remove(c, id), S \ {id})
\* remove({}): every document is removed.
removeAll(c) == removeEach(c, DOMAIN c.docs)

\* A modifier {$set, $unset} applied to a document's fields.
modify(d, set, unset) ==
  [f \in ((DOMAIN d) \ unset) \cup (DOMAIN set) |->
     IF f \in DOMAIN set THEN set[f] ELSE d[f]]

\* update(id, ...) fails with NotFound when the document does not exist.
collectionUpdateFails(c, id) == id \notin DOMAIN c.docs
\* update(id, {$set, $unset}): one call, both groups applied together.
collectionModify(c, id, set, unset) ==
  LET c1 == capture(c, id)
  IN notify(c1, [c.docs EXCEPT ![id] = modify(@, set, unset)])
\* update(id, replacement): the document's fields become the replacement's.
collectionReplace(c, id, replacement) ==
  LET c1 == capture(c, id)
  IN notify(c1, [c.docs EXCEPT ![id] = replacement.fields])

pauseObservers(c) == [c EXCEPT !.paused = @ + 1]

resumeObservers(c) ==
  IF c.paused = 0 THEN c
  ELSE IF c.paused > 1 THEN [c EXCEPT !.paused = @ - 1]
  ELSE [c EXCEPT !.paused = 0, !.seen = c.docs,
          !.fired = [o \in Observers |->
             c.fired[o] + (IF Result(o, c.docs) # Result(o, c.seen) THEN 1 ELSE 0)]]

collectionSaveOriginals(c) ==
  [c EXCEPT !.originals = Append(@, EmptyFrame)]

collectionRetrieveFails(c) == c.originals = <<>>
collectionTopFrame(c) == c.originals[Len(c.originals)]
collectionRetrieveOriginals(c) ==
  [c EXCEPT !.originals = SubSeq(@, 1, Len(@) - 1)]

(* ------------------------------------------------------------------------ *)
(* The registered store (collection.js, registerStore)                      *)
(* A call on a collection value gives [c |-> the collection after it,       *)
(* err |-> what it threw, ret |-> <<the value it returned>>].               *)
(* ------------------------------------------------------------------------ *)

Ok(c) == [c |-> c, err |-> "none", ret |-> <<>>]
\* A throw leaves the collection as it was before the throwing statement.
Threw(c, e) == [c |-> c, err |-> e, ret |-> <<>>]

\* beginUpdate that pauses for a reset only, whatever the batch size.
beginUpdateOnResetOnly(c, batchSize, reset) ==
  LET c1 == IF reset THEN pauseObservers(c) ELSE c
  IN Ok(IF reset THEN removeAll(c1) ELSE c1)

\* beginUpdate that pauses for a reset but keeps the documents.
beginUpdateOnKeep(c, batchSize, reset) ==
  Ok(IF batchSize > 1 \/ reset THEN pauseObservers(c) ELSE c)

\* beginUpdate that pauses only when the observers are not paused yet.
beginUpdateOnBoolean(c, batchSize, reset) ==
  LET c1 == IF (batchSize > 1 \/ reset) /\ c.paused = 0
              THEN pauseObservers(c) ELSE c
  IN Ok(IF reset THEN removeAll(c1) ELSE c1)

\* beginUpdate that clears the documents whether or not reset is set.
beginUpdateOnClear(c, batchSize, reset) ==
  LET c1 == IF batchSize > 1 \/ reset THEN pauseObservers(c) ELSE c
  IN Ok(removeAll(c1))

\* beginUpdate(batchSize, reset)
beginUpdateOn(c, batchSize, reset) ==
  LET c1 == IF batchSize > 1 \/ reset THEN pauseObservers(c) ELSE c
  IN Ok(IF reset THEN removeAll(c1) ELSE c1)

\* The 'replace' branch treating a null replacement like 'removed'.
updateReplaceStrict(c, mongoId, doc, msg) ==
  LET replace == msg.replace
  IN IF replace = Null
       THEN (IF doc THEN Ok(remove(c, mongoId))
             ELSE Threw(c, "ProtocolViolation"))
       ELSE IF ~doc
         THEN (IF insertFails(c, replace._id) THEN Threw(c, "DuplicateKey")
               ELSE Ok(insert(c, replace._id, replace.fields)))
         ELSE Ok(collectionReplace(c, mongoId, replace))

\* update(msg), msg.msg === 'replace'. insert(replace) stores the replacement
\* under its own _id; the collection's DuplicateKey is not caught by update.
updateReplace(c, mongoId, doc, msg) ==
  LET replace == msg.replace
  IN IF replace = Null
       THEN (IF doc
               THEN (IF removeFails(c, mongoId) THEN Threw(c, "NotFound")
                     ELSE Ok(remove(c, mongoId)))
               ELSE Ok(c))
       ELSE IF ~doc
         THEN (IF insertFails(c, replace._id) THEN Threw(c, "DuplicateKey")
               ELSE Ok(insert(c, replace._id, replace.fields)))
         ELSE (IF collectionUpdateFails(c, mongoId) THEN Threw(c, "NotFound")
               ELSE Ok(collectionReplace(c, mongoId, replace)))

\* The 'added' branch without its check for a document already present.
updateAddedUnchecked(c, mongoId, doc, msg) ==
  Ok(insert(c, mongoId, msg.fields))

\* update(msg), msg.msg === 'added'
updateAdded(c, mongoId, doc, msg) ==
  IF doc THEN Threw(c, "ProtocolViolation")
  ELSE IF insertFails(c, mongoId) THEN Threw(c, "DuplicateKey")
  ELSE Ok(insert(c, mongoId, msg.fields))

\* The 'removed' branch resuming the observers before it throws.
updateRemovedResuming(c, mongoId, doc, msg) ==
  IF ~doc THEN Threw(resumeObservers(c), "ProtocolViolation")
  ELSE IF removeFails(c, mongoId) THEN Threw(c, "NotFound")
  ELSE Ok(remove(c, mongoId))

\* update(msg), msg.msg === 'removed'
updateRemoved(c, mongoId, doc, msg) ==
  IF ~doc THEN Threw(c, "ProtocolViolation")
  ELSE IF removeFails(c, mongoId) THEN Threw(c, "NotFound")
  ELSE Ok(remove(c, mongoId))

\* The $set and $unset groups built from a 'changed' message's fields.
modifierSet(fields) ==
  [f \in {g \in DOMAIN fields : fields[g] # Undefined} |-> fields[f]]
modifierUnset(fields) == {g \in DOMAIN fields : fields[g] = Undefined}

\* The 'changed' branch issuing $set and $unset as two update calls.
updateChangedTwoCalls(c, mongoId, doc, msg) ==
  IF ~doc THEN Threw(c, "ProtocolViolation")
  ELSE IF DOMAIN msg.fields # {}
    THEN Ok(collectionModify(
              collectionModify(c, mongoId, modifierSet(msg.fields), {}),
              mongoId, [f \in {} |-> Undefined], modifierUnset(msg.fields)))
    ELSE Ok(c)

\* update(msg), msg.msg === 'changed'
updateChanged(c, mongoId, doc, msg) ==
  IF ~doc THEN Threw(c, "ProtocolViolation")
  ELSE IF DOMAIN msg.fields # {}
    THEN (IF collectionUpdateFails(c, mongoId) THEN Threw(c, "NotFound")
          ELSE Ok(collectionModify(c, mongoId, modifierSet(msg.fields),
                                   modifierUnset(msg.fields))))
    ELSE Ok(c)

\* update that ignores a message whose tag it does not know.
updateOnIgnore(c, msg) ==
  LET mongoId == idParse(msg.id)
      doc == findOne(c, mongoId)
  IN IF msg.msg = "replace" THEN updateReplace(c, mongoId, doc, msg)
     ELSE IF msg.msg = "added" THEN updateAdded(c, mongoId, doc, msg)
     ELSE IF msg.msg = "removed" THEN updateRemoved(c, mongoId, doc, msg)
     ELSE IF msg.msg = "changed" THEN updateChanged(c, mongoId, doc, msg)
     ELSE Ok(c)

\* update(msg)
updateOn(c, msg) ==
  LET mongoId == idParse(msg.id)
      doc == findOne(c, mongoId)
  IN IF msg.msg = "replace" THEN updateReplace(c, mongoId, doc, msg)
     ELSE IF msg.msg = "added" THEN updateAdded(c, mongoId, doc, msg)
     ELSE IF msg.msg = "removed" THEN updateRemoved(c, mongoId, doc, msg)
     ELSE IF msg.msg = "changed" THEN updateChanged(c, mongoId, doc, msg)
     ELSE Threw(c, "ProtocolViolation")

\* endUpdate()
endUpdateOn(c) == Ok(resumeObservers(c))

\* saveOriginals that opens no second frame while one is open.
saveOriginalsOnOnce(c) ==
  IF c.originals # <<>> THEN Ok(c) ELSE Ok(collectionSaveOriginals(c))

\* saveOriginals that empties the open frame instead of pushing a new one.
saveOriginalsOnRestart(c) ==
  IF c.originals # <<>>
    THEN Ok([c EXCEPT !.originals[Len(c.originals)] = EmptyFrame])
    ELSE Ok(collectionSaveOriginals(c))

\* saveOriginals()
saveOriginalsOn(c) == Ok(collectionSaveOriginals(c))

\* retrieveOriginals without its `return`.
retrieveOriginalsOnNoReturn(c) ==
  IF collectionRetrieveFails(c) THEN Threw(c, "LedgerUnderflow")
  ELSE Ok(collectionRetrieveOriginals(c))

\* retrieveOriginals that swallows the error and returns an empty frame.
retrieveOriginalsOnLenient(c) ==
  IF collectionRetrieveFails(c)
    THEN [c |-> c, err |-> "none", ret |-> <<EmptyFrame>>]
  ELSE [c |-> collectionRetrieveOriginals(c), err |-> "none",
        ret |-> <<collectionTopFrame(c)>>]

\* retrieveOriginals(): returns what the collection's retrieveOriginals returns.
retrieveOriginalsOn(c) ==
  IF collectionRetrieveFails(c) THEN Threw(c, "LedgerUnderflow")
  ELSE [c |-> collectionRetrieveOriginals(c), err |-> "none",
        ret |-> <<collectionTopFrame(c)>>]

(* ------------------------------------------------------------------------ *)
(* Actions: one call of the transport or of the local-write layer           *)
(* ------------------------------------------------------------------------ *)

Commit(r) ==
  /\ docs' = r.c.docs
  /\ originals' = r.c.originals
  /\ paused' = r.c.paused
  /\ seen' = r.c.seen
  /\ fired' = r.c.fired
  /\ err' = r.err
  /\ ret' = r.ret

Brackets == Len(open) + Len(originals)

\* A batch the transport has open: what it announced, whether another batch
\* was opened inside it, and the pause depth its beginUpdate was called at.
Batch(batchSize, reset) ==
  [batchSize |-> batchSize, reset |-> reset, nested |-> FALSE, depth |-> paused]

beginUpdate(batchSize, reset) ==
  /\ Len(open) < MaxNest
  /\ Brackets < MaxOpen
  /\ Commit(beginUpdateOn(Coll, batchSize, reset))
  /\ open' = Append([k \in DOMAIN open |-> [open[k] EXCEPT !.nested = TRUE]],
                    Batch(batchSize, reset))
  /\ call' = [op |-> "beginUpdate", arg |-> Batch(batchSize, reset)]
  /\ UNCHANGED opened

update(msg) ==
  /\ Commit(updateOn(Coll, msg))
  /\ call' = [op |-> "update", arg |-> msg]
  /\ UNCHANGED <<open, opened>>

endUpdate ==
  /\ open # <<>>
  /\ Commit(endUpdateOn(Coll))
  /\ open' = SubSeq(open, 1, Len(open) - 1)
  /\ call' = [op |-> "endUpdate", arg |-> open[Len(open)]]
  /\ UNCHANGED opened

saveOriginals ==
  /\ Len(originals) < MaxFrames
  /\ Brackets < MaxOpen
  /\ Commit(saveOriginalsOn(Coll))
  /\ opened' = Append(opened, docs)
  /\ call' = [op |-> "saveOriginals", arg |-> NoArg]
  /\ UNCHANGED open

retrieveOriginals ==
  /\ Commit(retrieveOriginalsOn(Coll))
  /\ opened' = IF opened = <<>> THEN opened
               ELSE SubSeq(opened, 1, Len(opened) - 1)
  /\ call' = [op |-> "retrieveOriginals", arg |-> NoArg]
  /\ UNCHANGED open

Init ==
  /\ docs = NoDocs
  /\ originals = <<>>
  /\ paused = 0
  /\ seen = NoDocs
  /\ fired = NoneFired
  /\ err = "none"
  /\ ret = <<>>
  /\ call = [op |-> "new", arg |-> NoArg]
  /\ open = <<>>
  /\ opened = <<>>

Next ==
  \/ \E batchSize \in 0..MaxBatchSize, reset \in BOOLEAN :
       beginUpdate(batchSize, reset)
  \/ \E msg \in Messages : update(msg)
  \/ endUpdate
  \/ saveOriginals
  \/ retrieveOriginals

\* The whole protocol, over the narrow fields and values.
Spec == Init /\ [][Next]_vars

\* update(msg) alone, over the wide fields and values.
NextWide == \E msg \in WideMessages : update(msg)

SpecWide == Init /\ [][NextWide]_vars

(* ------------------------------------------------------------------------ *)
(* Properties                                                               *)
(* ------------------------------------------------------------------------ *)

IsUpdate(c) == c.op = "update"
IdOf(m) == idParse(m.id)

\* The reference map: id -> fields, with the interpretation rules of the four
\* message kinds, each keyed by the id the message names.
RefChanged(d, fields) ==
  [f \in ((DOMAIN d) \cup (DOMAIN fields)) \ {g \in DOMAIN fields : fields[g] = Undefined} |->
     IF f \in DOMAIN fields THEN fields[f] ELSE d[f]]
RefPut(ref, id, d) == [i \in (DOMAIN ref) \cup {id} |-> IF i = id THEN d ELSE ref[i]]
RefDelete(ref, id) == [i \in (DOMAIN ref) \ {id} |-> ref[i]]
RefApply(ref, m) ==
  IF m.msg = "added" THEN RefPut(ref, IdOf(m), m.fields)
  ELSE IF m.msg = "removed" THEN RefDelete(ref, IdOf(m))
  ELSE IF m.msg = "changed" THEN RefPut(ref, IdOf(m), RefChanged(ref[IdOf(m)], m.fields))
  ELSE IF m.replace = Null THEN RefDelete(ref, IdOf(m))
  ELSE RefPut(ref, IdOf(m), m.replace.fields)

\* The existence precondition of a message of the four kinds.
PreconditionHolds(d, m) ==
  \/ m.msg = "added" /\ IdOf(m) \notin DOMAIN d
  \/ m.msg \in {"removed", "changed"} /\ IdOf(m) \in DOMAIN d
  \/ m.msg = "replace"

\* C1: every update(msg) applied where msg's existence precondition holds
\* takes the documents to what the reference map's rule for msg gives from
\* the same documents; so, message by message, a whole sequence leaves the
\* store equal to the reference map.
C1_StoreEqualsReferenceMap ==
  [][(IsUpdate(call') /\ PreconditionHolds(docs, call'.arg))
       => docs' = RefApply(docs, call'.arg)]_vars

\* A message that violates its existence precondition.
Violates(d, m) ==
  \/ m.msg = "added" /\ IdOf(m) \in DOMAIN d
  \/ m.msg \in {"removed", "changed"} /\ IdOf(m) \notin DOMAIN d

\* C2: 'added' for a present id and 'removed'/'changed' for an absent id throw
\* a protocol violation, which the caller gets, and leave the documents, the
\* originals and what the observers have seen as they were.
C2_ViolationThrowsAndLeavesStore ==
  [][(IsUpdate(call') /\ Violates(docs, call'.arg))
       => /\ err' = "ProtocolViolation"
          /\ docs' = docs
          /\ originals' = originals
          /\ seen' = seen
          /\ fired' = NoneFired]_vars

\* C2's case: an 'added' for an id that is present has just been refused while
\* a batch has the observers paused and an originals frame is open.
C2_Witness ==
  /\ IsUpdate(call) /\ call.arg.msg = "added"
  /\ IdOf(call.arg) \in DOMAIN docs
  /\ err = "ProtocolViolation"
  /\ paused > 0 /\ originals # <<>>

ReplaceNull(w) == [msg |-> "replace", id |-> w, replace |-> Null]

\* C7: in every state, a 'replace' with null replacement for an absent id
\* returns without error and changes no document; and once such a message has
\* been applied (to any store), applying it again returns without error and
\* leaves the documents exactly as the first application left them.
C7_ReplaceNullIdempotent ==
  /\ \A w \in WireIds :
       idParse(w) \notin DOMAIN docs
         => /\ updateOn(Coll, ReplaceNull(w)).err = "none"
            /\ updateOn(Coll, ReplaceNull(w)).c.docs = docs
  /\ (IsUpdate(call) /\ call.arg.msg = "replace" /\ call.arg.replace = Null)
       => /\ err = "none"
          /\ updateOn(Coll, call.arg).err = "none"
          /\ updateOn(Coll, call.arg).c.docs = docs

\* C7's case: a null 'replace' has just been applied to an id that was absent
\* (observers not paused and none notified: nothing was removed), beside
\* another document that is present.
C7_Witness ==
  /\ IsUpdate(call) /\ call.arg.msg = "replace" /\ call.arg.replace = Null
  /\ err = "none"
  /\ paused = 0 /\ fired = NoneFired
  /\ docs # NoDocs

\* The batch of C3: batchSize > 1 and reset false.
SizePausedBatch(b) == b.batchSize > 1 /\ ~b.reset
\* b is the only open batch and no batch was opened inside it: between its
\* beginUpdate and its endUpdate the transport calls update only.
OnlyBatch(b) == open = <<b>> /\ ~b.nested
\* Notifications an observer gets when the documents it was told of, before,
\* are brought up to the documents after.
NetChange(before, after) ==
  [o \in Observers |-> IF Result(o, after) # Result(o, before) THEN 1 ELSE 0]

C4_ResetClearsStore ==
  [][(call'.op = "beginUpdate" /\ call'.arg.reset)
       => (docs' = NoDocs /\ err' = "none")]_vars

\* C4's case: a reset batch has just ended with exactly document 2 in the
\* store; the observer of document 1 was told its document is gone.
C4_Witness ==
  /\ call.op = "endUpdate" /\ call.arg.reset /\ ~call.arg.nested
  /\ open = <<>>
  /\ DOMAIN docs = {2}
  /\ fired = [o \in Observers |-> 1]

\* What a frame holds for id when the documents were S.
Original(S, id) == IF id \in DOMAIN S THEN Saved(S[id]) ELSE DidNotExist
\* Writing every entry of frame f back into documents d.
Restore(d, f) ==
  [i \in ((DOMAIN d) \ {j \in DOMAIN f : ~f[j].exists})
           \cup {j \in DOMAIN f : f[j].exists} |->
     IF i \in DOMAIN f THEN f[i].doc ELSE d[i]]

\* C5: retrieveOriginals() matching a saveOriginals() called when the
\* documents were S returns one frame; each of its entries is the id's
\* document in S, or "did not exist" when S had none; every id whose document
\* differs from S has an entry; and writing the entries back gives S.
C5_FrameRestoresStore ==
  [][(call'.op = "retrieveOriginals" /\ opened # <<>>)
       => /\ Len(ret') = 1
          /\ \A id \in DOMAIN ret'[1] :
               ret'[1][id] = Original(opened[Len(opened)], id)
          /\ \A id \in Ids :
               Original(docs', id) # Original(opened[Len(opened)], id)
                 => id \in DOMAIN ret'[1]
          /\ Restore(docs', ret'[1]) = opened[Len(opened)]]_vars

\* C5's case: the frame just returned says document 1 existed and document 2
\* did not; now document 1 is gone and document 2 exists.
C5_Witness ==
  /\ call.op = "retrieveOriginals" /\ Len(ret) = 1
  /\ DOMAIN ret[1] = {1, 2}
  /\ ret[1][1].exists /\ ~ret[1][2].exists
  /\ DOMAIN docs = {2}

\* C6: saveOriginals() with a frame already open returns and pushes a new
\* empty frame above it; retrieveOriginals() returns the top frame and
\* discards that frame only; and every entry of every open frame is the id's
\* document as of the saveOriginals() that opened that frame.
C6_FramesAreAStack ==
  [][/\ (call'.op = "saveOriginals")
          => (err' = "none" /\ originals' = Append(originals, EmptyFrame))
     /\ (call'.op = "retrieveOriginals" /\ opened # <<>>)
          => /\ originals # <<>>
             /\ ret' = <<originals[Len(originals)]>>
             /\ originals' = SubSeq(originals, 1, Len(originals) - 1)
     /\ DOMAIN originals' = DOMAIN opened'
     /\ \A k \in DOMAIN originals' : \A id \in DOMAIN originals'[k] :
          originals'[k][id] = Original(opened'[k], id)]_vars

\* C6's case: an inner frame was just retrieved; it and the outer frame, still
\* open, both hold an original for document 1, and they differ.
C6_Witness ==
  /\ call.op = "retrieveOriginals" /\ Len(ret) = 1
  /\ Len(originals) = 1
  /\ 1 \in DOMAIN ret[1] /\ 1 \in DOMAIN originals[1]
  /\ ret[1][1] # originals[1][1]

\* C8: retrieveOriginals() with no frame open throws LedgerUnderflow to the
\* caller, returns nothing, and leaves documents and ledger as they were.
C8_RetrieveWithoutSaveThrows ==
  [][(call'.op = "retrieveOriginals" /\ opened = <<>>)
       => /\ err' = "LedgerUnderflow"
          /\ ret' = <<>>
          /\ docs' = docs
          /\ originals' = originals]_vars

\* C8's case: retrieveOriginals() has just thrown, with documents in the store.
C8_Witness ==
  /\ call.op = "retrieveOriginals" /\ err = "LedgerUnderflow"
  /\ docs # NoDocs

\* A batch whose beginUpdate skipped pauseObservers.
SkippedPause(b) == b.batchSize <= 1 /\ ~b.reset
\* A batch whose beginUpdate called pauseObservers.
Pauses(b) == b.batchSize > 1 \/ b.reset

\* C9: the endUpdate() of a batch that skipped pausing resumes nothing: it
\* returns, the pause depth stays what it was (so never below zero, and a
\* pause another open batch holds is kept), and no observer is notified.
C9_UnmatchedResumeIsNoOp ==
  [][(call'.op = "endUpdate" /\ SkippedPause(call'.arg))
       => /\ err' = "none"
          /\ paused' >= 0
          /\ paused' = paused
          /\ fired' = NoneFired
          /\ seen' = seen]_vars

\* C10: a pausing beginUpdate adds one to the pause depth whatever it was; an
\* endUpdate at depth above one takes one off; a call that leaves the depth
\* above zero notifies nobody; and an endUpdate notifies only when it takes
\* the depth from one to zero.
C10_PauseIsCounted ==
  [][/\ (call'.op = "beginUpdate" /\ Pauses(call'.arg)) => paused' = paused + 1
     /\ (call'.op = "endUpdate" /\ paused > 1) => paused' = paused - 1
     /\ (paused' > 0) => (fired' = NoneFired /\ seen' = seen)
     /\ (call'.op = "endUpdate" /\ fired' # NoneFired)
          => (paused = 1 /\ paused' = 0)]_vars

\* C10's case: the inner of two pausing batches has just ended; the outer one
\* is open, the depth is one, a change is buffered and nobody was notified.
C10_Witness ==
  /\ call.op = "endUpdate" /\ Pauses(call.arg)
  /\ Len(open) = 1 /\ Pauses(open[1])
  /\ paused = 1
  /\ docs # seen
  /\ fired = NoneFired

\* update(msg) run as a batch of one: beginUpdate(1, false); update(msg);
\* endUpdate(). The outcome is the error of its update and the collection
\* after its endUpdate.
BatchOfOne(c, msg) ==
  LET b == beginUpdateOn(c, 1, FALSE).c
      u == updateOn(b, msg)
  IN [c |-> endUpdateOn(u.c).c, err |-> u.err]

\* C11: with no batch open, update(msg) for every message gives the same
\* error (so none for being outside a batch), the same documents, the same
\* notifications to each observer and the same originals as
\* beginUpdate(1, false); update(msg); endUpdate() from the same state.
C11_UpdateOutsideBatchIsBatchOfOne ==
  open = <<>> =>
    \A msg \in Messages :
      LET alone == updateOn(Coll, msg)
          batch == BatchOfOne(Coll, msg)
      IN /\ alone.err = batch.err
         /\ alone.c.docs = batch.c.docs
         /\ alone.c.fired = batch.c.fired
         /\ alone.c.seen = batch.c.seen
         /\ alone.c.paused = batch.c.paused
         /\ alone.c.originals = batch.c.originals

\* C11's case: with no batch open and documents in the store, an update has
\* just been applied and returned, and observers were notified at once.
C11_Witness ==
  /\ IsUpdate(call) /\ open = <<>>
  /\ err = "none"
  /\ fired # NoneFired
  /\ Cardinality(DOMAIN docs) = 2

KnownTags == {"replace", "added", "removed", "changed"}
Unrecognized(msg) == msg.msg \notin KnownTags

\* C12: in every state, update with a message whose tag is none of the four,
\* for an id that is present or absent, throws a protocol violation and
\* leaves documents, originals, pause depth and observers as they were; and
\* whenever such an update was the last call, it threw.
C12_UnknownTagIsViolation ==
  /\ \A msg \in Messages :
       Unrecognized(msg)
         => /\ updateOn(Coll, msg).err = "ProtocolViolation"
            /\ updateOn(Coll, msg).c = Coll
  /\ (IsUpdate(call) /\ Unrecognized(call.arg))
       => (err = "ProtocolViolation" /\ fired = NoneFired)

\* C12's case: a message with an unknown tag has just been refused; the id it
\* names is present, the other id is absent, and a batch has changes buffered.
C12_Witness ==
  /\ IsUpdate(call) /\ Unrecognized(call.arg)
  /\ err = "ProtocolViolation"
  /\ DOMAIN docs = {IdOf(call.arg)}
  /\ paused > 0 /\ docs # seen

\* A 'replace' message carrying a replacement document.
ReplaceDoc(msg) == msg.msg = "replace" /\ msg.replace # Null

\* C13: update with a 'replace' carrying a non-null replacement returns
\* without error, and afterwards the id the message names is present with
\* exactly the replacement's fields (inserted when it was absent, every old
\* field not in the replacement gone when it was present).
C13_ReplaceStoresUnderMessageId ==
  [][(IsUpdate(call') /\ ReplaceDoc(call'.arg))
       => /\ err' = "none"
          /\ IdOf(call'.arg) \in DOMAIN docs'
          /\ docs'[IdOf(call'.arg)] = call'.arg.replace.fields]_vars

\* C14: update with a 'changed' message for a present id returns; in the
\* document, every field the message maps to undefined is absent, every field
\* it maps to another value (null included) has that value, every field it
\* does not name is as before; each observer gets at most one notification
\* and then knows the documents as they are (one call, both groups). With an
\* empty mapping nothing is called: documents, originals and observers stay.
C14_ChangedSetsAndUnsets ==
  [][(IsUpdate(call') /\ call'.arg.msg = "changed" /\ IdOf(call'.arg) \in DOMAIN docs)
       => LET id == IdOf(call'.arg)
              fields == call'.arg.fields
          IN /\ err' = "none"
             /\ id \in DOMAIN docs'
             /\ \A g \in WideFields :
                  /\ (g \in DOMAIN fields /\ fields[g] = Undefined)
                       => g \notin DOMAIN docs'[id]
                  /\ (g \in DOMAIN fields /\ fields[g] # Undefined)
                       => (g \in DOMAIN docs'[id] /\ docs'[id][g] = fields[g])
                  /\ (g \notin DOMAIN fields)
                       => /\ (g \in DOMAIN docs'[id]) = (g \in DOMAIN docs[id])
                          /\ (g \in DOMAIN docs[id]) => docs'[id][g] = docs[id][g]
             /\ \A o \in Observers : fired'[o] <= 1
             /\ (paused = 0) => seen' = docs'
             /\ (DOMAIN fields = {})
                  => (docs' = docs /\ originals' = originals
                      /\ fired' = NoneFired /\ seen' = seen)]_vars

\* C14's case: a 'changed' that set name to null and unset age has just been
\* applied to a document, which now has name null and no age, and its
\* observers were notified once.
C14_Witness ==
  /\ IsUpdate(call) /\ call.arg.msg = "changed" /\ err = "none"
  /\ DOMAIN call.arg.fields = {"name", "age"}
  /\ call.arg.fields["name"] = "null" /\ call.arg.fields["age"] = Undefined
  /\ docs[IdOf(call.arg)] = [f \in {"name"} |-> "null"]
  /\ fired[0] = 1 /\ fired[IdOf(call.arg)] = 1

\* C15: for every frame that stays open over a call and every id: an entry
\* the frame has is never changed or dropped; an entry the call adds is the
\* id's document (or "did not exist") just before the call, which is still the
\* one of the frame's opening; a call that changes the id's document leaves
\* the frame with an entry for it; and the frame retrieveOriginals() returns
\* holds, for each id, the document as of the frame's opening.
C15_CapturedOncePerFrame ==
  [][/\ \A k \in (DOMAIN originals) \cap (DOMAIN originals') : \A id \in Ids :
          /\ (id \in DOMAIN originals[k])
               => (id \in DOMAIN originals'[k]
                   /\ originals'[k][id] = originals[k][id])
          /\ (id \notin DOMAIN originals[k] /\ id \in DOMAIN originals'[k])
               => (originals'[k][id] = Original(docs, id)
                   /\ Original(docs, id) = Original(opened[k], id))
          /\ (Original(docs', id) # Original(docs, id))
               => id \in DOMAIN originals'[k]
     /\ (call'.op = "retrieveOriginals" /\ originals # <<>>)
          => (Len(ret') = 1
              /\ \A id \in DOMAIN ret'[1] :
                   ret'[1][id] = Original(opened[Len(opened)], id))]_vars

\* C15's case: document 1 did not exist when the open frame was opened, was
\* added and has just been removed again; the frame still says "did not
\* exist" for it.
C15_Witness ==
  /\ IsUpdate(call) /\ call.arg.msg = "removed" /\ IdOf(call.arg) = 1
  /\ err = "none"
  /\ Len(originals) = 1
  /\ 1 \in DOMAIN originals[1] /\ originals[1][1] = DidNotExist

\* The updates of a batch announced with batchSize n: at most n messages.
RunsOf(n) == {<<>>} \cup (IF n >= 1 THEN {<<m>> : m \in Messages} ELSE {})
\* The updates of run applied in order; a throwing update changes nothing.
RECURSIVE updateEach(_, _)
updateEach(c, run) ==
  IF run = <<>> THEN c ELSE updateEach(updateOn(c, Head(run)).c, Tail(run))
\* The batch as the store runs it: beginUpdate(n, false), the updates,
\* endUpdate(); and the same batch with the pause taken and given back.
SkippingBatch(c, n, run) ==
  endUpdateOn(updateEach(beginUpdateOn(c, n, FALSE).c, run)).c
PausingBatch(c, n, run) ==
  resumeObservers(updateEach(pauseObservers(c), run))

\* C16: from every state, a batch with batchSize <= 1 and reset false ends
\* with the same documents, the same notifications received by each observer
\* and the same documents known to the observers as the same batch run with
\* pauseObservers at its beginUpdate and resumeObservers at its endUpdate.
C16_SkippedPauseInvisible ==
  \A n \in 0..1 : \A run \in RunsOf(n) :
    LET skip == SkippingBatch(Coll, n, run)
        pause == PausingBatch(Coll, n, run)
    IN /\ skip.docs = pause.docs
       /\ skip.fired = pause.fired
       /\ skip.seen = pause.seen

\* A reset batch is open, and k is the outermost one.
OutermostReset(k) ==
  /\ k \in DOMAIN open /\ open[k].reset
  /\ \A j \in 1..(k - 1) : ~open[j].reset

\* C17: beginUpdate(b, true), for every b, adds one to the pause depth and
\* clears the documents without notifying anybody; while a reset batch stays
\* open no call notifies anybody or changes what the observers know, and the
\* observers stay paused; and the endUpdate of a reset batch with the
\* documents equal to what the observers know notifies nobody.
C17_ResetBatchStaysPaused ==
  [][/\ (call'.op = "beginUpdate" /\ call'.arg.reset)
          => /\ paused' = paused + 1
             /\ docs' = NoDocs
             /\ fired' = NoneFired /\ seen' = seen
     /\ \A k \in DOMAIN open :
          (OutermostReset(k) /\ Len(open') >= k)
            => (paused' > 0 /\ fired' = NoneFired /\ seen' = seen)
     /\ (call'.op = "endUpdate" /\ call'.arg.reset /\ docs = seen)
          => fired' = NoneFired]_vars

\* C18: in every state, update of every message either returns or throws a
\* protocol violation: no insert, remove or update it issues on the
\* collection fails with DuplicateKey or NotFound.
C18_UpdateThrowsOnlyViolations ==
  /\ \A msg \in WideMessages :
       updateOn(Coll, msg).err \in {"none", "ProtocolViolation"}
  /\ IsUpdate(call) => err \in {"none", "ProtocolViolation"}

\* C19: update(msg), for every message, leaves every document with an id
\* other than the one msg names as it was: present with the same fields, or
\* absent.
C19_UpdateTouchesOnlyMessageId ==
  [][IsUpdate(call')
       => \A j \in Ids \ {IdOf(call'.arg)} :
            Original(docs', j) = Original(docs, j)]_vars

\* C20: update (returning or throwing), saveOriginals and retrieveOriginals
\* leave the pause depth as it was; beginUpdate never lowers it, so only
\* endUpdate does; an update that throws a protocol violation also leaves
\* the documents and what the observers know, with nobody notified; and the
\* endUpdate of a batch whose beginUpdate was called at depth zero leaves the
\* depth at zero.
C20_PauseChangedOnlyByBatchCalls ==
  [][/\ (call'.op \in {"update", "saveOriginals", "retrieveOriginals"})
          => paused' = paused
     /\ (call'.op = "beginUpdate") => paused' >= paused
     /\ (IsUpdate(call') /\ err' = "ProtocolViolation")
          => (docs' = docs /\ seen' = seen /\ fired' = NoneFired)
     /\ (call'.op = "endUpdate" /\ call'.arg.depth = 0) => paused' = 0]_vars

\* C20's case: inside a batch that paused the observers, after an 'added' was
\* applied, a 'removed' for an absent id has just thrown; the observers are
\* still paused and the added document is in the store, not yet known to them.
C20_Witness ==
  /\ IsUpdate(call) /\ call.arg.msg = "removed" /\ err = "ProtocolViolation"
  /\ Len(open) = 1 /\ Pauses(open[1]) /\ open[1].depth = 0
  /\ paused = 1
  /\ seen = NoDocs /\ docs # NoDocs

====
